---------------------------- MODULE Spec2Model ----------------------------
(***************************************************************************)
(* A model of pyNova.py, the serial driver of the Ophir Nova power meter.  *)
(*                                                                         *)
(* A Python str is modelled as a sequence of one-character strings, so     *)
(* that slicing, substring search, dictionary lookup and str.replace are   *)
(* computed the way the interpreter computes them.  The source is Python 2 *)
(* (b'{0}'.format(...), str += serial.read(1)): str is a byte string.      *)
(*                                                                         *)
(* Three specifications share the variables:                               *)
(*   Spec      the public methods of NovaSerialDriver, called in any order *)
(*             on one driver object and one scripted transport;            *)
(*   SpecWire  the request path __send_receive_data (lines 94-103) run     *)
(*             step by step on an attached transport, with the device      *)
(*             delivering its reply byte by byte.                          *)
(*   SpecEncode  __build_command_string called on its own, and in the      *)
(*             write of line 96.                                           *)
(***************************************************************************)
EXTENDS Integers, Sequences, FiniteSets, TLC

\* ----------------------------------------------------------------- bounds

\* Longest string over Alphabet that the device is made to send.
MaxLen == 3

\* ------------------------------------------------------------- characters

CR == "\r"
LF == "\n"
CRLF == <<CR, LF>>

ERROR_CHAR == "?"
COMMAND_CHAR == "$"
RESULT_CHAR == "*"

\* --------------------------------------------------------- str operations

\* c in s, for a one-character c
Contains(s, c) == \E i \in DOMAIN s : s[i] = c

\* s[1:]
SliceFrom1(s) == IF s = <<>> THEN <<>> ELSE Tail(s)

\* s.startswith(p)
StartsWith(s, p) == Len(s) >= Len(p) /\ SubSeq(s, 1, Len(p)) = p

\* s.endswith(p)
EndsWith(s, p) == Len(s) >= Len(p) /\ SubSeq(s, Len(s) - Len(p) + 1, Len(s)) = p

\* s.replace(old, new) for a non-empty old: the non-overlapping occurrences
\* of old, found left to right, are each replaced; the text put in is not
\* scanned again.
RECURSIVE StrReplace(_, _, _)
StrReplace(s, old, new) ==
    IF Len(s) < Len(old) THEN s
    ELSE IF StartsWith(s, old)
         THEN new \o StrReplace(SubSeq(s, Len(old) + 1, Len(s)), old, new)
         ELSE <<s[1]>> \o StrReplace(Tail(s), old, new)

\* ------------------------------------------------------------ NovaCommands

FORCE_POWER == <<"F", "P">>
FORCE_ENERGY == <<"F", "E">>
GET_VERSION == <<"V", "E">>
GET_HEAD_INFO == <<"H", "I">>
GET_INSTRUMENT_INFO == <<"I", "I">>
GET_UNIT == <<"S", "I">>
GET_POWER == <<"S", "P", " ", "1", "0">>
GET_ENERGY == <<"S", "E", " ", "1", "0">>

\* --------------------------------------------------------------- NovaUnits

Simulation == <<"S", "i", "m", "u", "l", "a", "t", "i", "o", "n">>

\* UNIT_SETUP without its 'Simulation' entry
UNIT_SETUP_units_only ==
    (<<"A">> :> <<"A", "m", "p", "s">>)
    @@ (<<"J">> :> <<"J", "o", "u", "l", "e", "s">>)
    @@ (<<"V">> :> <<"V", "o", "l", "t", "s">>)
    @@ (<<"W">> :> <<"W", "a", "t", "t", "s">>)
    @@ (<<"L">> :> <<"L", "u", "x">>)
    @@ (<<"X">> :> <<"N", "o", " ", "m", "e", "a", "s", "u", "r", "e", "m", "e", "n", "t", " ", "y", "e", "t">>)

UNIT_SETUP ==
    (<<"A">> :> <<"A", "m", "p", "s">>)
    @@ (<<"J">> :> <<"J", "o", "u", "l", "e", "s">>)
    @@ (<<"V">> :> <<"V", "o", "l", "t", "s">>)
    @@ (<<"W">> :> <<"W", "a", "t", "t", "s">>)
    @@ (<<"L">> :> <<"L", "u", "x">>)
    @@ (<<"X">> :> <<"N", "o", " ", "m", "e", "a", "s", "u", "r", "e", "m", "e", "n", "t", " ", "y", "e", "t">>)
    @@ (Simulation :> Simulation)

\* ------------------------------------------------------------------- Error

TokParamError == <<"?", "P", "A", "R", "A", "M", " ", "E", "R", "R", "O", "R">>
TokTimeout == <<"?", "T", "I", "M", "E", "O", "U", "T", ":", " ", "N", "O", " ", "P", "U", "L", "S", "E">>
TokNotMeasuring == <<"?", "H", "E", "A", "D", " ", "N", "O", "T", " ", "M", "E", "A", "S", "U", "R", "I", "N", "G", " ", "P", "O", "W", "E", "R">>
TokNotMainScreen == <<"?", "N", "O", "T", " ", "I", "N", " ", "M", "A", "I", "N", " ", "P", "O", "W", "E", "R", " ", "S", "C", "R", "E", "E", "N">>
TokHeadNotConnected == <<"?", "H", "E", "A", "D", " ", "N", "O", "T", " ", "C", "O", "N", "N", "E", "C", "T", "E", "D">>
TokUnknownCommand == <<"?", "U", "N", "K", "N", "O", "W", "N", " ", "C", "O", "M", "M", "A", "N", "D">>

DescHeadNotConnected == <<"h", "e", "a", "d", " ", "i", "s", " ", "n", "o", "t", " ", "c", "o", "n", "n", "e", "c", "t", "e", "d", " ", "t", "o", " ", "d", "e", "v", "i", "c", "e">>

ERROR_MESSAGES ==
    (TokParamError :> <<"b", "a", "d", " ", "o", "p", "e", "r", "a", "n", "d", ".">>)
    @@ (TokTimeout :> <<"w", "h", "e", "n", " ", "t", "h", "e", " ", "r", "e", "q", "u", "e", "s", "t", "e", "d", " ", "t", "i", "m", "e", " ", "p", "e", "r", "i", "o", "d", " ", "e", "l", "a", "p", "s", "e", "d", " ", "w", "/", "o", " ", "p", "u", "l", "s", "e", " ", "c", "o", "m", "i", "n", "g", " ", "i", "n">>)
    @@ (TokNotMeasuring :> <<"h", "e", "a", "d", " ", "n", "o", "t", " ", "m", "e", "a", "s", "u", "r", "e", " ", "p", "o", "w", "e", "r">>)
    @@ (TokNotMainScreen :> <<"d", "e", "v", "i", "c", "e", " ", "i", "s", " ", "n", "o", "t", " ", "i", "n", " ", "m", "a", "i", "n", " ", "s", "c", "r", "e", "e", "n">>)
    @@ (TokHeadNotConnected :> DescHeadNotConnected)
    @@ (TokUnknownCommand :> <<"u", "n", "k", "n", "o", "w", "n", " ", "c", "o", "m", "m", "a", "n", "d">>)

\* --------------------------------------------------- outcomes of a call

\* A float is m * 10^e with m not divisible by ten (0 is m = 0, e = 0).
NoFloat == [m |-> 0, e |-> 0]
NoDict == [rom |-> <<>>, head |-> <<>>, inst |-> <<>>, unit |-> <<>>]

\* What a call ended in: a returned value of type t, or a raised exception.
Outcome(kind, exc, t, s, f, d) ==
    [kind |-> kind, exc |-> exc, t |-> t, s |-> s, f |-> f, d |-> d]

NoOutcome == Outcome("none", "", "none", <<>>, NoFloat, NoDict)
ReturnNone == Outcome("return", "", "none", <<>>, NoFloat, NoDict)
ReturnStr(s) == Outcome("return", "", "str", s, NoFloat, NoDict)
ReturnFloat(f) == Outcome("return", "", "float", <<>>, f, NoDict)
ReturnDict(d) == Outcome("return", "", "dict", <<>>, NoFloat, d)
Raise(exc) == Outcome("raise", exc, "none", <<>>, NoFloat, NoDict)

\* The exception raised at line 140, a bare Exception with this message.
MalformedException == "Exception: returned string has not the defined characters in it!"
\* The exception raised at line 74.
ConnectionException == "Exception: connection could not be established!"

\* ------------------------------------------------ pure methods of the driver

\* __build_command_string ending the frame with a line feed alone.
build_command_string_lf_only(c) == <<COMMAND_CHAR>> \o c \o <<LF>>

\* __build_command_string: '{0}{1}\r\n'.format(self.COMMAND_CHAR, cmd)
build_command_string(c) == <<COMMAND_CHAR>> \o c \o CRLF

\* _extract_received_data with its last branch returning the data it was
\* given instead of raising.
extract_received_data_lenient(data) ==
    IF Contains(data, RESULT_CHAR) THEN ReturnStr(SliceFrom1(data))
    ELSE IF Contains(data, ERROR_CHAR)
         THEN IF data \in DOMAIN ERROR_MESSAGES
              THEN ReturnStr(ERROR_MESSAGES[data])
              ELSE Raise("KeyError")
         ELSE ReturnStr(data)

\* _extract_received_data: `in` is a substring search, data[1:] drops the
\* first character whatever it is, and the dictionary is indexed with the
\* data as received (a missing key raises KeyError).
extract_received_data(data) ==
    IF Contains(data, RESULT_CHAR) THEN ReturnStr(SliceFrom1(data))
    ELSE IF Contains(data, ERROR_CHAR)
         THEN IF data \in DOMAIN ERROR_MESSAGES
              THEN ReturnStr(ERROR_MESSAGES[data])
              ELSE Raise("KeyError")
         ELSE Raise(MalformedException)

\* Line 103: self._extract_received_data(result).replace('\r\n', '').  The
\* replace is applied to whatever string was returned; an exception passes
\* through.
send_receive_return(result) ==
    LET r == extract_received_data(result)
    IN  IF r.kind = "return" THEN ReturnStr(StrReplace(r.s, CRLF, <<>>)) ELSE r

\* ------------------------------------------------------------------ float()

Digits == {"0", "1", "2", "3", "4", "5", "6", "7", "8", "9"}
DigitVal ==
    ("0" :> 0) @@ ("1" :> 1) @@ ("2" :> 2) @@ ("3" :> 3) @@ ("4" :> 4)
    @@ ("5" :> 5) @@ ("6" :> 6) @@ ("7" :> 7) @@ ("8" :> 8) @@ ("9" :> 9)
Whitespace == {" ", "\t", CR, LF}

RECURSIVE LStrip(_)
LStrip(s) == IF s # <<>> /\ s[1] \in Whitespace THEN LStrip(Tail(s)) ELSE s
RECURSIVE RStrip(_)
RStrip(s) ==
    IF s # <<>> /\ s[Len(s)] \in Whitespace THEN RStrip(SubSeq(s, 1, Len(s) - 1)) ELSE s

\* int() of a string of digits
RECURSIVE DigitsValue(_)
DigitsValue(s) ==
    IF s = <<>> THEN 0 ELSE 10 * DigitsValue(SubSeq(s, 1, Len(s) - 1)) + DigitVal[s[Len(s)]]

AllDigits(s) == \A i \in DOMAIN s : s[i] \in Digits

\* the position of the first character of s that is in cs, 0 when none is
FirstIn(s, cs) ==
    IF \E i \in DOMAIN s : s[i] \in cs
    THEN CHOOSE i \in DOMAIN s : s[i] \in cs /\ \A j \in 1..(i - 1) : s[j] \notin cs
    ELSE 0

RECURSIVE Normalize(_, _)
Normalize(m, e) ==
    IF m = 0 THEN [m |-> 0, e |-> 0]
    ELSE IF m % 10 = 0 THEN Normalize(m \div 10, e + 1)
    ELSE [m |-> m, e |-> e]

\* float(value_string) on a decimal literal: surrounding whitespace is
\* dropped; then [sign] digits [. digits] [(e|E) [sign] digits] with at
\* least one digit in the mantissa.  Anything else is a ValueError.  (The
\* literals inf and nan need letters that no modelled reply is made of in a
\* position float() would accept.)
ParseFloat(value_string) ==
    LET t == RStrip(LStrip(value_string))
        signed == t # <<>> /\ t[1] \in {"+", "-"}
        neg == signed /\ t[1] = "-"
        body == IF signed THEN Tail(t) ELSE t
        epos == FirstIn(body, {"e", "E"})
        mant == IF epos = 0 THEN body ELSE SubSeq(body, 1, epos - 1)
        expo == IF epos = 0 THEN <<>> ELSE SubSeq(body, epos + 1, Len(body))
        dot == FirstIn(mant, {"."})
        ipart == IF dot = 0 THEN mant ELSE SubSeq(mant, 1, dot - 1)
        fpart == IF dot = 0 THEN <<>> ELSE SubSeq(mant, dot + 1, Len(mant))
        esigned == expo # <<>> /\ expo[1] \in {"+", "-"}
        eneg == esigned /\ expo[1] = "-"
        edigits == IF esigned THEN Tail(expo) ELSE expo
        ok == /\ AllDigits(ipart) /\ AllDigits(fpart)
              /\ Len(ipart) + Len(fpart) > 0
              /\ (epos # 0 => (edigits # <<>> /\ AllDigits(edigits)))
        m == DigitsValue(ipart \o fpart)
        x == IF epos = 0 THEN 0
             ELSE IF eneg THEN 0 - DigitsValue(edigits) ELSE DigitsValue(edigits)
    IN  IF ok THEN [ok |-> TRUE, f |-> Normalize(IF neg THEN 0 - m ELSE m, x - Len(fpart))]
        ELSE [ok |-> FALSE, f |-> NoFloat]

\* _format_numeric_value: float(value_string)
format_numeric_value(value_string) ==
    LET p == ParseFloat(value_string)
    IN  IF p.ok THEN ReturnFloat(p.f) ELSE Raise("ValueError")

\* 0 <= f < 1
RECURSIVE Pow10(_)
Pow10(n) == IF n <= 0 THEN 1 ELSE 10 * Pow10(n - 1)
InUnitInterval(f) == f.m >= 0 /\ (f.m = 0 \/ (f.e < 0 /\ f.m < Pow10(0 - f.e)))

\* -------------------------------------------------------------------- state

VARIABLES
    connection,     \* self.connection: "None", or the Serial object, "open" or "closed"
    com_port,       \* self.com_port
    baudrate,       \* self.baudrate
    parity,         \* self.parity
    cts_line,       \* self.cts_line
    dtr_rts_lines,  \* self.dtr_rts_lines
    stop_bit,       \* self.stop_bit
    data_bits,      \* self.data_bits
    siumulation,    \* self.siumulation, the attribute __init__ sets (line 57)
    simulation,     \* self.simulation, the attribute simulate_device sets:
                    \* "unset" until the first call, then "True" or "False"
    script,         \* the device: the bytes it answers a command with
    inflight,       \* bytes the device has sent that have not reached the port yet
    rx,             \* the input buffer of the port
    wire,           \* the frames written to the port by the call in `op`
    calls,          \* the methods of the port called by the call in `op`
    op,             \* the method of the driver called last
    outcome,        \* what that call ended in
    opened,         \* the caller's view: open() has returned with the simulation not
                    \* switched on, and close() has not since
    pc,             \* where __send_receive_data stands
    result,         \* its local variable result
    classified,     \* what line 103 evaluated to
    cmd,            \* the argument of the last call of __build_command_string
    frame           \* what that call returned

config == <<com_port, baudrate, parity, cts_line, dtr_rts_lines, stop_bit, data_bits, siumulation>>
request == <<pc, result, classified>>
encoder == <<cmd, frame>>
vars == <<connection, config, simulation, script, inflight, rx, wire, calls, op,
          outcome, opened, request, encoder>>

\* ------------------------------------------------------------- the device

Alphabet == {RESULT_CHAR, ERROR_CHAR, "a", CR, LF}

RECURSIVE StringsUpTo(_)
StringsUpTo(n) ==
    IF n = 0 THEN {<<>>}
    ELSE LET shorter == StringsUpTo(n - 1)
         IN  shorter \cup {Append(t, c) : t \in {u \in shorter : Len(u) = n - 1}, c \in Alphabet}

\* Replies of the instrument, and replies a faulty line or firmware makes.
NamedReplies ==
    { <<"*", "1", ".", "2", "3", "E", "+", "0", "1", CR, LF>>,
      <<"*", "W", CR, LF>>,
      <<"*", "Q", CR, LF>>,
      <<"*", "X", CR, LF>>,
      <<"*", "a", "b", "c", CR, LF>>,
      <<"*", "a", CR, LF, "b", CR, LF>>,
      <<"*", "a", "?", "b", CR, LF>>,
      <<"?", "a", "*", "b", CR, LF>>,
      <<"a", "*", "b", CR, LF>>,
      <<"?", "F", "O", "O", CR, LF>>,
      <<"a", "b", "c", CR, LF>>,
      <<>> }
    \cup {tok \o CRLF : tok \in DOMAIN ERROR_MESSAGES}
    \cup {TokHeadNotConnected, TokParamError}

Replies == NamedReplies \cup StringsUpTo(MaxLen)

\* ---------------------------------------------------------------- __init__

ComPorts == {<<"C", "O", "M", "1">>, <<"C", "O", "M", "7">>}
BaudInputs == {300, 9600, 19200, 115200}

\* The driver as __init__ leaves it (lines 46-57), its two arguments being
\* whatever the caller passes, and a device attached to the line.
InitDriver(ports, bauds) ==
    /\ connection = "None"
    /\ com_port \in ports
    /\ baudrate \in bauds
    /\ parity = "PARITY_NONE"
    /\ cts_line = TRUE
    /\ dtr_rts_lines = FALSE
    /\ stop_bit = "STOPBITS_ONE"
    /\ data_bits = "EIGHTBITS"
    /\ siumulation = FALSE
    /\ simulation = "unset"
    /\ inflight = <<>>
    /\ rx = <<>>
    /\ wire = <<>>
    /\ calls = <<>>
    /\ op = "__init__"
    /\ outcome = ReturnNone
    /\ opened = FALSE
    /\ pc = "idle"
    /\ result = <<>>
    /\ classified = NoOutcome
    /\ cmd = <<>>
    /\ frame = <<>>

Init ==
    /\ InitDriver(ComPorts, BaudInputs)
    /\ script \in NamedReplies

\* ------------------------------------------------------- the simulation guard

\* bool(x) of the objects the guard can be given: a bound method is true.
TruthyIsTrue(x) == x = "True"
Truthy(x) == x \in {"True", "method"}

\* The expression self.simulate_device of lines 78, 83, 107, 114, 121, 128
\* and 157: the class defines simulate_device as a method (line 86) and no
\* instance attribute of that name is ever set, so it is the bound method.
self_simulate_device == "method"

simulating == Truthy(self_simulate_device)

\* ------------------------------------------------- the methods, on the port

\* The port as a call finds it: no frame written and no method called yet.
Port0 == [conn |-> connection, rx |-> rx, wire |-> <<>>, calls |-> <<>>, out |-> ReturnNone]

\* __setup_connection (lines 59-74): serial.Serial(...) either raises, and
\* the bare except turns that into the Exception of line 74 with
\* self.connection left as it was, or gives an open port whose buffers are
\* then reset.
setup_connection(st, acquired) ==
    IF acquired
    THEN [st EXCEPT !.conn = "open", !.rx = <<>>,
                    !.calls = <<"Serial", "flush", "reset_input_buffer", "reset_output_buffer">>,
                    !.out = ReturnNone]
    ELSE [st EXCEPT !.calls = <<"Serial">>, !.out = Raise(ConnectionException)]

\* self.connection.close() (line 84)
connection_close(st) ==
    IF st.conn = "None" THEN [st EXCEPT !.out = Raise("AttributeError")]
    ELSE [st EXCEPT !.conn = "closed", !.calls = <<"close">>, !.out = ReturnNone]

\* __send_receive_data (lines 94-103) as one step, the device's whole reply
\* reaching the input buffer within the half second of line 99: the frame is
\* written, everything in the input buffer is read, line 103 is evaluated.
send_receive_data(st, c) ==
    IF st.conn = "None" THEN [st EXCEPT !.out = Raise("AttributeError")]
    ELSE IF st.conn = "closed"
         THEN [st EXCEPT !.calls = st.calls \o <<"write">>, !.out = Raise("SerialException")]
         ELSE LET drained == st.rx \o script
              IN  [st EXCEPT !.wire = Append(st.wire, build_command_string(c)),
                             !.calls = st.calls \o <<"write", "inWaiting", "read">>,
                             !.rx = <<>>,
                             !.out = send_receive_return(drained)]

\* _get_version, _get_head_info, _get_instrument_info, _get_unit (lines 105-131)
text_query(st, c) ==
    IF simulating THEN [st EXCEPT !.out = ReturnStr(Simulation)]
    ELSE send_receive_data(st, c)

\* random.random(): some of the floats of [0.0, 1.0)
RandomRandom ==
    {[m |-> 0, e |-> 0], [m |-> 5, e |-> -1], [m |-> 25, e |-> -2], [m |-> 999, e |-> -3]}

\* get_power (lines 155-160)
power_query(st, r) ==
    IF simulating THEN [st EXCEPT !.out = ReturnFloat(r)]
    ELSE LET s1 == send_receive_data(st, GET_POWER)
         IN  IF s1.out.kind = "raise" THEN s1
             ELSE [s1 EXCEPT !.out = format_numeric_value(s1.out.s)]

\* `next` run after `st` unless st ended in an exception, which propagates
Then(st, next) == IF st.out.kind = "raise" THEN st ELSE next

\* get_infos (lines 146-153): four queries in a row, the unit looked up in
\* UNIT_SETUP (a missing key raises KeyError)
infos_query(st) ==
    LET s1 == text_query(st, GET_VERSION)
        s2 == Then(s1, text_query(s1, GET_HEAD_INFO))
        s3 == Then(s2, text_query(s2, GET_INSTRUMENT_INFO))
        s4 == Then(s3, text_query(s3, GET_UNIT))
    IN  IF s4.out.kind = "raise" THEN s4
        ELSE IF s4.out.s \notin DOMAIN UNIT_SETUP THEN [s4 EXCEPT !.out = Raise("KeyError")]
        ELSE [s4 EXCEPT !.out = ReturnDict([rom |-> s1.out.s, head |-> s2.out.s,
                                            inst |-> s3.out.s, unit |-> UNIT_SETUP[s4.out.s]])]

\* ------------------------------------------------------------ actions of Spec

\* The call `name` has run and left the port as st.
Call(name, st) ==
    /\ op' = name
    /\ outcome' = st.out
    /\ connection' = st.conn
    /\ rx' = st.rx
    /\ wire' = st.wire
    /\ calls' = st.calls
    /\ opened' = IF st.out.kind # "return" \/ simulation = "True" THEN opened
                 ELSE IF name = "open" THEN TRUE
                 ELSE IF name = "close" THEN FALSE
                 ELSE opened
    /\ UNCHANGED <<config, script, inflight, request, encoder>>

\* simulate_device(simulation) (lines 86-88)
simulate_device(b) ==
    /\ simulation' = b
    /\ Call("simulate_device", Port0)

\* open() (lines 76-79)
open ==
    /\ IF simulating THEN Call("open", Port0)
       ELSE \E acquired \in BOOLEAN : Call("open", setup_connection(Port0, acquired))
    /\ UNCHANGED simulation

\* close() (lines 81-84)
close ==
    /\ IF simulating THEN Call("close", Port0)
       ELSE Call("close", connection_close(Port0))
    /\ UNCHANGED simulation

get_version ==
    /\ Call("_get_version", text_query(Port0, GET_VERSION))
    /\ UNCHANGED simulation

get_head_info ==
    /\ Call("_get_head_info", text_query(Port0, GET_HEAD_INFO))
    /\ UNCHANGED simulation

get_instrument_info ==
    /\ Call("_get_instrument_info", text_query(Port0, GET_INSTRUMENT_INFO))
    /\ UNCHANGED simulation

get_unit ==
    /\ Call("_get_unit", text_query(Port0, GET_UNIT))
    /\ UNCHANGED simulation

get_power ==
    /\ \E r \in RandomRandom : Call("get_power", power_query(Port0, r))
    /\ UNCHANGED simulation

get_infos ==
    /\ Call("get_infos", infos_query(Port0))
    /\ UNCHANGED simulation

Next ==
    \/ \E b \in {"True", "False"} : simulate_device(b)
    \/ open
    \/ close
    \/ get_version
    \/ get_head_info
    \/ get_instrument_info
    \/ get_unit
    \/ get_power
    \/ get_infos

Spec == Init /\ [][Next]_vars

\* ------------------------------------------------------- claims under Spec

TextQueries == {"_get_version", "_get_head_info", "_get_instrument_info", "_get_unit"}
Queries == TextQueries \cup {"get_power"}

\* The call in `op` ran on a session the caller had opened, with the
\* simulation switched off or never switched on.
RealModeCall == opened /\ simulation # "True"

FramePower == <<"$", "S", "P", " ", "1", "0", CR, LF>>
ReplyPower == <<"*", "1", ".", "2", "3", "E", "+", "0", "1", CR, LF>>

\* C1: with simulation off on an open session, getPower() writes exactly the
\* one frame '$SP 10\r\n' and returns the number the device sent: 12.3 when
\* the device answers '*1.23E+01\r\n'.
C1_GetPowerReadsTheDevice ==
    (op = "get_power" /\ RealModeCall /\ script = ReplyPower)
        => /\ wire = <<FramePower>>
           /\ outcome = ReturnFloat([m |-> 123, e |-> -1])

\* C2: the argument of the latest setSimulation call decides whether a query
\* is answered synthetically (after true) or by the transport (after false).
C2_LatestFlagDecides ==
    (op \in Queries /\ opened)
        => /\ simulation = "True" => (wire = <<>> /\ calls = <<>>)
           /\ simulation = "False" => Len(wire) = 1

\* C3: while simulation is active no call touches the transport and none
\* fails: open and close acquire and release nothing, the four text queries
\* return 'Simulation', and getPower returns a float of [0, 1).
C3_SimulationNeverTouchesTransport ==
    (simulation = "True" /\ op \notin {"__init__", "simulate_device"})
        => /\ wire = <<>> /\ calls = <<>>
           /\ outcome.kind = "return"
           /\ op \in {"open", "close"} => outcome = ReturnNone
           /\ op \in TextQueries
                => outcome = ReturnStr(<<"S", "i", "m", "u", "l", "a", "t", "i", "o", "n">>)
           /\ op = "get_power" => (outcome.t = "float" /\ InUnitInterval(outcome.f))

\* A power reading taken with the simulation active.
C3_Witness ==
    /\ simulation = "True"
    /\ op = "get_power"
    /\ outcome = ReturnFloat([m |-> 999, e |-> -3])

\* C4: with simulation off, a query that the transport answers with an error
\* token of the table and CR LF ends in a DeviceError failure that carries
\* the token's description; it returns nothing.
C4_ErrorTokenFailsTheQuery ==
    (op \in Queries /\ RealModeCall /\ \E tok \in DOMAIN ERROR_MESSAGES : script = tok \o CRLF)
        => /\ outcome.kind = "raise"
           /\ outcome.exc = "DeviceError"
           /\ \E tok \in DOMAIN ERROR_MESSAGES :
                  script = tok \o CRLF /\ outcome.s = ERROR_MESSAGES[tok]

ReplyWatts == <<"*", "W", CR, LF>>

\* C9: getInfos() with simulation off writes the four frames '$VE', '$HI',
\* '$II', '$SI' (each with CR LF) in that order and no other, and the
\* DeviceInfo it returns holds the reply to each.
C9_GetInfosWritesFourFrames ==
    (op = "get_infos" /\ RealModeCall /\ script = ReplyWatts)
        => /\ wire = << <<"$", "V", "E", CR, LF>>, <<"$", "H", "I", CR, LF>>,
                        <<"$", "I", "I", CR, LF>>, <<"$", "S", "I", CR, LF>> >>
           /\ outcome = ReturnDict([rom |-> <<"W">>, head |-> <<"W">>, inst |-> <<"W">>,
                                    unit |-> <<"W", "a", "t", "t", "s">>])

\* The replies that make a query fail: a token of the error table, an error
\* marker with a token the table does not hold, and bytes with no marker.
FailingReplies ==
    {tok \o CRLF : tok \in DOMAIN ERROR_MESSAGES}
    \cup {<<"?", "F", "O", "O", CR, LF>>, <<"a", "b", "c", CR, LF>>, <<>>}

\* C10: getInfos() is all or nothing: when a query of it fails (here the
\* first, the device answering every command with a failing reply), getInfos
\* fails there, writes no further frame and returns no DeviceInfo.
C10_GetInfosAllOrNothing ==
    (op = "get_infos" /\ RealModeCall /\ script \in FailingReplies)
        => /\ outcome.kind = "raise"
           /\ Len(wire) = 1

\* The unit names of the unit table, by the code the device answers with.
UnitNames ==
    (<<"A">> :> <<"A", "m", "p", "s">>)
    @@ (<<"J">> :> <<"J", "o", "u", "l", "e", "s">>)
    @@ (<<"V">> :> <<"V", "o", "l", "t", "s">>)
    @@ (<<"W">> :> <<"W", "a", "t", "t", "s">>)
    @@ (<<"L">> :> <<"L", "u", "x">>)
    @@ (<<"X">> :> <<"N", "o", " ", "m", "e", "a", "s", "u", "r", "e", "m", "e", "n", "t", " ", "y", "e", "t">>)

\* C11: getInfos() with simulation off resolves the unit code the device
\* answers with through the unit table (W -> Watts, X -> 'No measurement
\* yet', ...), and fails, returning no DeviceInfo, when the code is not in
\* the table (Q).
C11_UnitCodeResolved ==
    (op = "get_infos" /\ RealModeCall)
        => /\ \A code \in DOMAIN UnitNames :
                  script = <<"*">> \o code \o CRLF
                      => (outcome.t = "dict" /\ outcome.d.unit = UnitNames[code])
           /\ script = <<"*", "Q", CR, LF>> => outcome.kind = "raise"

\* C12: with simulation active getInfos() touches no transport and returns a
\* DeviceInfo whose four fields are all filled, the unit being 'Simulation'.
C12_SimulatedInfos ==
    (op = "get_infos" /\ simulation = "True")
        => /\ wire = <<>> /\ calls = <<>>
           /\ outcome.kind = "return" /\ outcome.t = "dict"
           /\ outcome.d.rom # <<>> /\ outcome.d.head # <<>> /\ outcome.d.inst # <<>>
           /\ outcome.d.unit = <<"S", "i", "m", "u", "l", "a", "t", "i", "o", "n">>

\* getInfos() has returned with the simulation switched on.
C12_Witness ==
    /\ op = "get_infos"
    /\ simulation = "True"
    /\ outcome.kind = "return"
    /\ outcome.d.rom = <<"S", "i", "m", "u", "l", "a", "t", "i", "o", "n">>

\* C14: open() with the simulation not active makes exactly one attempt to
\* acquire the transport; on success the buffers are reset and the port is
\* open, on failure open() ends in the 'connection failed' exception.
C14_OpenAcquiresOnce ==
    (op = "open" /\ simulation # "True")
        => /\ Len(SelectSeq(calls, LAMBDA c : c = "Serial")) = 1
           /\ outcome.kind = "return"
                => (connection = "open" /\ rx = <<>>
                    /\ calls = <<"Serial", "flush", "reset_input_buffer", "reset_output_buffer">>)
           /\ outcome.kind = "raise"
                => outcome.exc = "Exception: connection could not be established!"

\* The baud rates of BAUDRATES (line 41).
SupportedBaudrates == {300, 1200, 4800, 9600, 19200}

\* C20: in every state of a session the line settings are 8 data bits, no
\* parity, 1 stop bit, clear-to-send flow control on, DTR/RTS flow control
\* off, and the baud rate is one of 300, 1200, 4800, 9600, 19200.
C20_LineSettings ==
    /\ data_bits = "EIGHTBITS"
    /\ parity = "PARITY_NONE"
    /\ stop_bit = "STOPBITS_ONE"
    /\ cts_line = TRUE
    /\ dtr_rts_lines = FALSE
    /\ baudrate \in SupportedBaudrates

\* ------------------------------------------------------ actions of SpecWire

\* The command each query passes to __send_receive_data (lines 110, 117,
\* 124, 131, 160).
CommandOf ==
    [q \in Queries |->
        CASE q = "_get_version" -> GET_VERSION
          [] q = "_get_head_info" -> GET_HEAD_INFO
          [] q = "_get_instrument_info" -> GET_INSTRUMENT_INFO
          [] q = "_get_unit" -> GET_UNIT
          [] q = "get_power" -> GET_POWER]

\* A driver made with the default arguments of line 46, and a device that
\* answers every command with the same bytes, whatever they are.
InitWire ==
    /\ InitDriver({<<"C", "O", "M", "1">>}, {9600})
    /\ script \in Replies

\* The port is attached: serial.Serial(...) of line 62 has returned and the
\* buffers are reset.  No public method gets there (see `simulating`);
\* SpecWire runs __setup_connection and __send_receive_data themselves, as a
\* caller of the name-mangled methods does.
Attach ==
    /\ connection = "None"
    /\ connection' = "open"
    /\ opened' = TRUE
    /\ op' = "open"
    /\ calls' = <<"Serial", "flush", "reset_input_buffer", "reset_output_buffer">>
    /\ UNCHANGED <<config, simulation, script, inflight, rx, wire, outcome, request,
                   encoder>>

\* Line 96 and 97 of a query q: the frame is written and result is ''.  The
\* device receives the frame and sends its reply.  (A command is sent only
\* once every byte of the last reply has left the device.)
WireSend(q) ==
    /\ connection = "open"
    /\ pc = "idle"
    /\ inflight = <<>>
    /\ op' = q
    /\ cmd' = CommandOf[q]
    /\ frame' = build_command_string(CommandOf[q])
    /\ wire' = <<frame'>>
    /\ calls' = <<"write">>
    /\ result' = <<>>
    /\ classified' = NoOutcome
    /\ outcome' = NoOutcome
    /\ inflight' = script
    /\ pc' = "settle"
    /\ UNCHANGED <<connection, config, simulation, script, rx, opened>>

\* A byte of the reply reaches the input buffer of the port.
DeviceDeliver ==
    /\ inflight # <<>>
    /\ rx' = Append(rx, Head(inflight))
    /\ inflight' = Tail(inflight)
    /\ UNCHANGED <<connection, config, encoder, simulation, script, wire, calls, op, outcome,
                   opened, request>>

\* Line 99: time.sleep(0.5) returns.
WireSettle ==
    /\ pc = "settle"
    /\ pc' = "drain"
    /\ calls' = Append(calls, "sleep")
    /\ UNCHANGED <<connection, config, encoder, simulation, script, inflight, rx, wire, op,
                   outcome, opened, result, classified>>

\* Lines 100-102: inWaiting() > 0, and one byte is read and appended.
WireRead ==
    /\ pc = "drain"
    /\ rx # <<>>
    /\ result' = Append(result, Head(rx))
    /\ rx' = Tail(rx)
    /\ calls' = IF result = <<>> THEN Append(calls, "read") ELSE calls
    /\ UNCHANGED <<connection, config, encoder, simulation, script, inflight, wire, op, outcome,
                   opened, pc, classified>>

\* The loop ending without asking whether a byte is waiting.
WireDrainedEarly ==
    /\ pc = "drain"
    /\ pc' = "classify"
    /\ UNCHANGED <<connection, config, encoder, simulation, script, inflight, rx, wire, calls,
                   op, outcome, opened, result, classified>>

\* Line 100: inWaiting() is 0, the loop ends.
WireDrained ==
    /\ pc = "drain"
    /\ rx = <<>>
    /\ pc' = "classify"
    /\ UNCHANGED <<connection, config, encoder, simulation, script, inflight, rx, wire, calls,
                   op, outcome, opened, result, classified>>

\* Line 103.
WireClassify ==
    /\ pc = "classify"
    /\ classified' = send_receive_return(result)
    /\ pc' = "return"
    /\ UNCHANGED <<connection, config, encoder, simulation, script, inflight, rx, wire, calls,
                   op, outcome, opened, result>>

\* The query returns what __send_receive_data returned, get_power (line 160)
\* after _format_numeric_value; an exception propagates.
WireReturn ==
    /\ pc = "return"
    /\ outcome' = IF op = "get_power" /\ classified.kind = "return"
                  THEN format_numeric_value(classified.s)
                  ELSE classified
    /\ pc' = "idle"
    /\ UNCHANGED <<connection, config, encoder, simulation, script, inflight, rx, wire, calls,
                   op, opened, result, classified>>

NextWire ==
    \/ Attach
    \/ \E q \in Queries : WireSend(q)
    \/ DeviceDeliver
    \/ WireSettle
    \/ WireRead
    \/ WireDrained
    \/ WireClassify
    \/ WireReturn

SpecWire == InitWire /\ [][NextWire]_vars

\* --------------------------------------------------- claims under SpecWire

\* Line 103 has been evaluated on the bytes in `result`.
Classified == pc \in {"return", "idle"} /\ classified.kind # "none"

\* s without the CR LF that ends it, when one does
StripFraming(s) == IF EndsWith(s, CRLF) THEN SubSeq(s, 1, Len(s) - 2) ELSE s

\* C5: a response that begins with '*' is classified as a result whose
\* payload is the response without the leading marker and without the
\* trailing CR LF, nothing else changed; so '*' + p + CR LF gives back p.
C5_ResultPayloadIsResponseUnframed ==
    (Classified /\ result # <<>> /\ result[1] = "*")
        => classified = ReturnStr(StripFraming(Tail(result)))

\* C6: a response that is a token of the error table once its framing CR LF
\* is stripped is classified as the error the table maps the token to.
C6_KnownTokenGivesItsDescription ==
    \A tok \in DOMAIN ERROR_MESSAGES :
        (Classified /\ StripFraming(result) = tok) => classified.s = ERROR_MESSAGES[tok]

\* The failure an error-marker response with an unknown token ends in.
UnrecognizedErrorToken == Raise("KeyError")

\* C7: an error-marker response whose token is not in the error table fails
\* with UnrecognizedErrorToken, a failure that a response with a known token
\* and a response with no marker never end in, and never returns a value.
C7_UnknownTokenFailsDistinctly ==
    (Classified /\ result # <<>>)
        => /\ (result[1] = "?" /\ StripFraming(result) \notin DOMAIN ERROR_MESSAGES)
                => classified = UnrecognizedErrorToken
           /\ (result[1] = "?" /\ StripFraming(result) \in DOMAIN ERROR_MESSAGES)
                => classified # UnrecognizedErrorToken
           /\ (\A i \in DOMAIN result : result[i] \notin {"*", "?"})
                => classified # UnrecognizedErrorToken

\* C8: drained bytes holding neither '*' nor '?', the empty string among
\* them, fail with the malformed-response exception of line 140, and the
\* query that drained them fails with it too: it returns nothing.
C8_NoMarkerIsMalformed ==
    (Classified /\ \A i \in DOMAIN result : result[i] \notin {"*", "?"})
        => /\ classified.kind = "raise"
           /\ classified.exc = "Exception: returned string has not the defined characters in it!"
           /\ pc = "idle" => outcome = classified

\* A query that drained nothing, the device having sent nothing, has failed.
C8_Witness ==
    /\ pc = "idle"
    /\ op = "_get_version"
    /\ script = <<>>
    /\ result = <<>>
    /\ outcome.kind = "raise"

\* The descriptions of the error table.
Descriptions == {ERROR_MESSAGES[tok] : tok \in DOMAIN ERROR_MESSAGES}

\* C15: the first character of the response alone decides: a response that
\* begins with '?' is never a result, whatever follows; one that begins with
\* '*' is a result; one that begins with neither is malformed, whatever
\* follows, and its first character is not dropped to make a payload.
C15_FirstCharacterDecides ==
    (Classified /\ result # <<>>)
        => /\ result[1] = "?"
                => (classified.kind = "return" => classified.s \in Descriptions)
           /\ result[1] = "*" => classified.kind = "return"
           /\ result[1] \notin {"*", "?"}
                => (classified.kind = "raise"
                    /\ classified.exc = "Exception: returned string has not the defined characters in it!")

\* get_power on the request path has ended.
PowerEnded == pc = "idle" /\ op = "get_power" /\ outcome.kind # "none"

\* C16: getPower decodes a number only from a reply classified as a result:
\* a reply that is a token of the error table ends it in a failure that is
\* not the non-numeric one (float's ValueError), and a result whose payload
\* is no number ends it in that failure, never in a value.
C16_DecodingOnlyOfResults ==
    PowerEnded
        => /\ StripFraming(result) \in DOMAIN ERROR_MESSAGES
                => (outcome.kind = "raise" /\ outcome.exc # "ValueError")
           /\ (result # <<>> /\ result[1] = "*" /\ classified.kind = "return"
               /\ ~ParseFloat(classified.s).ok)
                => (outcome.kind = "raise" /\ outcome.exc = "ValueError")

\* C17 (its second half): when the bytes drained are not a complete frame,
\* not ending in CR LF, the query fails as malformed and returns nothing.
C17_PartialFrameIsMalformed ==
    (Classified /\ ~EndsWith(result, CRLF))
        => /\ classified.kind = "raise"
           /\ classified.exc = "Exception: returned string has not the defined characters in it!"

C19_OnlyOwnReply ==
    (Classified /\ classified.kind = "return")
        => \E k \in 0..Len(script) : result = SubSeq(script, 1, k)

\* ---------------------------------------------------- actions of SpecEncode

\* The mnemonics of NovaCommands (lines 18-25).
Commands ==
    {FORCE_POWER, FORCE_ENERGY, GET_VERSION, GET_HEAD_INFO, GET_INSTRUMENT_INFO,
     GET_UNIT, GET_POWER, GET_ENERGY}

\* What __build_command_string is called with: the mnemonics, and any other
\* string, which str.format takes as well.
CommandInputs == Commands \cup StringsUpTo(MaxLen)

\* __build_command_string(c) called on its own.
BuildCommand(c) ==
    /\ cmd' = c
    /\ frame' = build_command_string(c)
    /\ UNCHANGED <<connection, config, simulation, script, inflight, rx, wire, calls, op,
                   outcome, opened, request>>

InitEncode ==
    /\ InitDriver({<<"C", "O", "M", "1">>}, {9600})
    /\ script = <<>>

\* The encoder on its own, and in the write of line 96.
NextEncode ==
    \/ \E c \in CommandInputs : BuildCommand(c)
    \/ Attach
    \/ \E q \in Queries : WireSend(q)

SpecEncode == InitEncode /\ [][NextEncode]_vars

\* ------------------------------------------------- claims under SpecEncode

\* The frame of each mnemonic, written out.
FrameOfMnemonic ==
    (<<"F", "P">> :> <<"$", "F", "P", CR, LF>>)
    @@ (<<"F", "E">> :> <<"$", "F", "E", CR, LF>>)
    @@ (<<"V", "E">> :> <<"$", "V", "E", CR, LF>>)
    @@ (<<"H", "I">> :> <<"$", "H", "I", CR, LF>>)
    @@ (<<"I", "I">> :> <<"$", "I", "I", CR, LF>>)
    @@ (<<"S", "I">> :> <<"$", "S", "I", CR, LF>>)
    @@ (<<"S", "P", " ", "1", "0">> :> <<"$", "S", "P", " ", "1", "0", CR, LF>>)
    @@ (<<"S", "E", " ", "1", "0">> :> <<"$", "S", "E", " ", "1", "0", CR, LF>>)

\* The frame each query puts on the wire.
FrameOfQuery ==
    ("_get_version" :> <<"$", "V", "E", CR, LF>>)
    @@ ("_get_head_info" :> <<"$", "H", "I", CR, LF>>)
    @@ ("_get_instrument_info" :> <<"$", "I", "I", CR, LF>>)
    @@ ("_get_unit" :> <<"$", "S", "I", CR, LF>>)
    @@ ("get_power" :> <<"$", "S", "P", " ", "1", "0", CR, LF>>)

\* C13: the frame built for a command is '$', the mnemonic, CR, LF and no
\* other character, for each of the eight mnemonics; and the frame a query
\* writes to the transport is the frame of its own command.
C13_FrameIsDollarMnemonicCRLF ==
    /\ frame # <<>>
        => /\ Len(frame) = Len(cmd) + 3
           /\ frame[1] = "$"
           /\ \A i \in DOMAIN cmd : frame[i + 1] = cmd[i]
           /\ frame[Len(frame) - 1] = CR /\ frame[Len(frame)] = LF
           /\ cmd \in DOMAIN FrameOfMnemonic => frame = FrameOfMnemonic[cmd]
    /\ DOMAIN FrameOfMnemonic = Commands
    /\ (pc = "settle" /\ op \in DOMAIN FrameOfQuery) => wire = <<FrameOfQuery[op]>>

\* get_power has written its frame, and the frame of GET_ENERGY was built.
C13_Witness ==
    /\ pc = "settle"
    /\ op = "get_power"
    /\ wire = << <<"$", "S", "P", " ", "1", "0", CR, LF>> >>
    /\ cmd = <<"S", "E", " ", "1", "0">>
    /\ frame = <<"$", "S", "E", " ", "1", "0", CR, LF>>

=============================================================================
